---- MODULE Spec2Model ----
(***************************************************************************)
(* The asynchronous job lifecycle of the meme service: the admission       *)
(* endpoint (app.py), the RedisService job store (utils/redis_utils.py)    *)
(* and the Celery task (tasks.py); with them the meme and share pages      *)
(* (app.py) and the caption generator (scripts/).                          *)
(*                                                                         *)
(* The web application is one uvicorn process (app.py:747-749) whose        *)
(* handlers are `async def` without any await, so one handler runs at a    *)
(* time.  Celery workers are separate processes: every Redis command of a  *)
(* handler interleaves with every Redis command of the workers.  Every     *)
(* Redis command may raise (store unreachable); RedisService catches it.   *)
(*                                                                         *)
(* Time is in seconds; the clock is read where a handler computes the      *)
(* sweep's cutoff and where add_job stamps created_at.  created_at is the  *)
(* JSON value of the record: the kind of value and, for an ISO string,     *)
(* the time it denotes.  Records carry the fields the lifecycle reads;     *)
(* `updated_at` and the history entries' timestamps are left out.          *)
(***************************************************************************)
EXTENDS Integers, Sequences, FiniteSets, TLC

\* ---------------------------------------------------------------- bounds
\* job ids generated; clock readings after time 0; Redis commands that raise
\* in one run; pipeline stages that fail in one run
MaxJobs == 1
MaxTicks == 1
MaxStoreFaults == 2
MaxStageFaults == 1

\* ---------------------------------------------------- program constants
CAPACITY == 100
max_retries == 3
max_age_seconds == 1800

\* QUEUE_CONFIG['job_ttl'], line 26
job_ttl == 24 * 60 * 60

JOB_STATUS ==
    [QUEUED |-> "queued", PROCESSING |-> "processing",
     COMPLETED |-> "completed", FAILED |-> "failed"]

JobIds == 1..MaxJobs
WEB == 0
Procs == {WEB} \cup JobIds
\* in-flight jobs of earlier requests that no worker touches in the window
SeedCounts == {0, CAPACITY, CAPACITY + 1}
EmptyDict == [k \in {} |-> 0]

VARIABLES
    jobs,          \* Redis keys job:<id>      (id -> decoded JSON record)
    active_jobs,   \* Redis set active_jobs, the ids this model tracks
    seeded,        \* Redis set active_jobs, the number of other ids in it
    memes,         \* Redis keys meme:<id>     (id -> stored JSON text)
    now,           \* the last value datetime.utcnow() returned
    web,           \* the handler the web process is running, and its locals
    task,          \* the Celery task of each job
    ujs,           \* the update_job_status call each process is in
    store_faults,  \* history: the number of Redis commands that raised
    stage_faults,  \* history: the number of pipeline stages that failed
    srem_failed,   \* history: ids whose srem in a terminal update raised
    meme_call,     \* the last call of store_meme_data or get_meme_data made
                   \* outside the task: its arguments and what it returned
    expiry,        \* Redis keys job:<id>      (id -> the time the key expires)
    caption        \* the generate_content call in progress: which of the two
                   \* functions of that name, its position and its locals

vars == <<jobs, active_jobs, seeded, memes, now, web, task, ujs, store_faults, stage_faults, srem_failed, meme_call, expiry, caption>>

\* ------------------------------------------------------------ RedisService

\* a Redis command returns
Succeeds == UNCHANGED <<store_faults, stage_faults>>
\* a Redis command raises
Fails ==
    /\ store_faults < MaxStoreFaults
    /\ store_faults' = store_faults + 1
    /\ UNCHANGED stage_faults
\* a pipeline stage returns
StageSucceeds == UNCHANGED <<store_faults, stage_faults>>
\* a pipeline stage raises
StageFails ==
    /\ stage_faults < MaxStageFaults
    /\ stage_faults' = stage_faults + 1
    /\ UNCHANGED store_faults

\* datetime.utcnow(): a value not before the last one read
Times == {k * (max_age_seconds + 1) : k \in 0..MaxTicks}
UtcNow == {t \in Times \cup {now} : t >= now}

\* get_queue_length: scard("active_jobs")
QueueLength == seeded + Cardinality(active_jobs)

\* datetime.isoformat() of a naive datetime (add_job, line 48), the same of
\* an offset-aware one, a string that is no ISO timestamp, and a JSON number:
\* the values a record's created_at is read with
IsoFormat(t) == [py |-> "str", v |-> "naive", t |-> t]
AwareIsoFormat(t) == [py |-> "str", v |-> "aware", t |-> t]
NoIsoFormat == [py |-> "str", v |-> "text", t |-> 0]
JsonNumber == [py |-> "int", v |-> "number", t |-> 0]

\* cleanup_stale_jobs, line 166: the default of job_data.get('created_at', ...),
\* 2000-01-01, and line 169: datetime.min; both lie before every cutoff
default_created_at == IsoFormat(0 - 2 * max_age_seconds)
datetime_min == 0 - 3 * max_age_seconds

\* cleanup_stale_jobs, lines 165-169: datetime.fromisoformat of the record's
\* created_at; ValueError (no ISO timestamp) and TypeError (no string) give
\* datetime.min
CreatedAt(job_data) ==
    LET v == IF "created_at" \in DOMAIN job_data
             THEN job_data["created_at"] ELSE default_created_at
    IN IF v.py = "str" /\ v.v \in {"naive", "aware"}
       THEN [aware |-> v.v = "aware", t |-> v.t]
       ELSE [aware |-> FALSE, t |-> datetime_min]

\* cleanup_stale_jobs, line 171: comparing an offset-aware datetime with the
\* naive cutoff_time raises TypeError, outside the inner try
CompareRaises(job_data) == CreatedAt(job_data).aware

IsStale_Mutant(job_data, cutoff) == CreatedAt(job_data).t > cutoff

\* cleanup_stale_jobs, line 171: created_at < cutoff_time
IsStale(job_data, cutoff) == CreatedAt(job_data).t < cutoff

\* add_job, lines 46-54: the record add_job serialises
NewJobRecord(created) ==
    [request |-> "request",
     created_at |-> IsoFormat(created),
     status |-> JOB_STATUS.QUEUED,
     status_history |-> <<[status |-> JOB_STATUS.QUEUED]>>]

\* update_job_status, lines 107-116: the history entry
HistoryEntry(status, additional_data) ==
    IF "error" \in DOMAIN additional_data
    THEN [status |-> status, error |-> additional_data["error"]]
    ELSE [status |-> status]

UpdatedRecord_Sticky(job_data, status, additional_data) ==
    IF job_data["status"] \in {JOB_STATUS.COMPLETED, JOB_STATUS.FAILED}
    THEN job_data
    ELSE additional_data @@
         [k \in DOMAIN job_data \cup {"status", "status_history"} |->
            IF k = "status" THEN status
            ELSE IF k = "status_history"
                 THEN Append(job_data["status_history"],
                             HistoryEntry(status, additional_data))
                 ELSE job_data[k]]

UpdatedRecord_Mutant(job_data, status, additional_data) ==
    additional_data @@
    [k \in DOMAIN job_data \cup {"status"} |->
       IF k = "status" THEN status ELSE job_data[k]]

\* update_job_status, lines 98-120: the record written back
UpdatedRecord(job_data, status, additional_data) ==
    LET hist == IF "status_history" \in DOMAIN job_data
                THEN job_data["status_history"] ELSE << >>
        base == [k \in DOMAIN job_data \cup {"status", "status_history"} |->
                   IF k = "status" THEN status
                   ELSE IF k = "status_history"
                        THEN Append(hist, HistoryEntry(status, additional_data))
                        ELSE job_data[k]]
    IN additional_data @@ base

IsTerminal_Mutant(status) == status = JOB_STATUS.COMPLETED

IsTerminal_Never(status) == FALSE

\* update_job_status, line 134: the statuses that leave the active set
IsTerminal(status) == status \in {JOB_STATUS.COMPLETED, JOB_STATUS.FAILED}

IdleCall == [pc |-> "idle"]
\* a call of update_job_status(job_id, status, additional_data)
Call(job_id, status, additional_data) ==
    [pc |-> "get", job_id |-> job_id, status |-> status,
     additional_data |-> additional_data]

SetJob_Mutant(id, rec) == [k \in DOMAIN jobs \cup {id} |-> rec]

\* setex("job:<id>", ttl, json.dumps(rec)): the one key is written
SetJob(id, rec) == [k \in DOMAIN jobs \cup {id} |-> IF k = id THEN rec ELSE jobs[k]]

UJS_Get_Mutant(p) ==
    /\ ujs[p].pc = "get"
    /\ ujs' = [ujs EXCEPT ![p] = [@ EXCEPT !.pc = "setex"] @@
                 [job_data |-> IF ujs[p].job_id \in DOMAIN jobs
                               THEN jobs[ujs[p].job_id] ELSE EmptyDict]]
    /\ Succeeds
    /\ UNCHANGED <<jobs, active_jobs, seeded, memes, now, web, task, srem_failed, meme_call, expiry, caption>>

\* update_job_status, line 93: get_job_status
UJS_Get(p) ==
    /\ ujs[p].pc = "get"
    /\ \/ /\ ujs[p].job_id \in DOMAIN jobs
          /\ ujs' = [ujs EXCEPT ![p] = [@ EXCEPT !.pc = "setex"] @@
                                       [job_data |-> jobs[ujs[p].job_id]]]
          /\ Succeeds
       \/ /\ ujs[p].job_id \notin DOMAIN jobs
          /\ ujs' = [ujs EXCEPT ![p] = [pc |-> "done", ok |-> FALSE]]
          /\ Succeeds
       \/ /\ ujs' = [ujs EXCEPT ![p] = [pc |-> "done", ok |-> FALSE]]
          /\ Fails
    /\ UNCHANGED <<jobs, active_jobs, seeded, memes, now, web, task, srem_failed, meme_call, expiry, caption>>

SetExpiry(id, t) ==
    [k \in DOMAIN expiry \cup {id} |-> IF k = id THEN t ELSE expiry[k]]

\* Redis TTL job:<id>: -2 when the key does not exist, else the lifetime that
\* remains in seconds, rounded: 0 in the last half second.  (-1, a key with
\* no expiry, does not occur: both writers of job:<id> use SETEX.)
Ttl(id) ==
    IF id \notin DOMAIN jobs THEN 0 - 2
    ELSE IF expiry[id] > now THEN expiry[id] - now ELSE 0

\* update_job_status, lines 122-125: the ttl handed to setex
SetexTtl(id) == IF Ttl(id) < 0 THEN job_ttl ELSE Ttl(id)

\* update_job_status, lines 98-131: ttl and setex.  SETEX with a ttl of 0 is
\* an error reply (invalid expire time), which lines 141-143 turn into False.
UJS_Setex(p) ==
    /\ ujs[p].pc = "setex"
    /\ \/ /\ SetexTtl(ujs[p].job_id) > 0
          /\ jobs' = SetJob(ujs[p].job_id,
                 UpdatedRecord(ujs[p].job_data, ujs[p].status, ujs[p].additional_data))
          /\ expiry' = SetExpiry(ujs[p].job_id, now + SetexTtl(ujs[p].job_id))
          /\ ujs' = [ujs EXCEPT ![p] =
                 IF IsTerminal(ujs[p].status)
                 THEN [pc |-> "srem", job_id |-> ujs[p].job_id]
                 ELSE [pc |-> "done", ok |-> TRUE]]
          /\ Succeeds
       \/ /\ SetexTtl(ujs[p].job_id) = 0
          /\ ujs' = [ujs EXCEPT ![p] = [pc |-> "done", ok |-> FALSE]]
          /\ Succeeds
          /\ UNCHANGED <<jobs, expiry>>
       \/ /\ ujs' = [ujs EXCEPT ![p] = [pc |-> "done", ok |-> FALSE]]
          /\ Fails
          /\ UNCHANGED <<jobs, expiry>>
    /\ UNCHANGED <<active_jobs, seeded, memes, now, web, task, srem_failed, meme_call, caption>>

\* update_job_status, lines 133-139: srem for a terminal status
UJS_Srem(p) ==
    /\ ujs[p].pc = "srem"
    /\ \/ /\ active_jobs' = active_jobs \ {ujs[p].job_id}
          /\ ujs' = [ujs EXCEPT ![p] = [pc |-> "done", ok |-> TRUE]]
          /\ UNCHANGED <<store_faults, stage_faults, srem_failed>>
       \/ /\ ujs' = [ujs EXCEPT ![p] = [pc |-> "done", ok |-> FALSE]]
          /\ Fails
          /\ srem_failed' = srem_failed \cup {ujs[p].job_id}
          /\ UNCHANGED active_jobs
    /\ UNCHANGED <<jobs, seeded, memes, now, web, task, meme_call, expiry, caption>>

\* ------------------------------------------------- the artifact records

\* QUEUE_CONFIG["result_ttl"]
result_ttl == 24 * 60 * 60

\* Python values of a meme_data dict, by type
PyStr(v) == [py |-> "str", v |-> v]
PyInt(v) == [py |-> "int", v |-> v]
PyTuple(v) == [py |-> "tuple", v |-> v]
PyBytes(v) == [py |-> "bytes", v |-> v]
PyDict(v) == [py |-> "dict", v |-> v]

\* json.dumps raises TypeError for a value JSON has no form for
JsonSerializable(data) == \A k \in DOMAIN data : data[k].py # "bytes"

\* json.dumps: str -> string, int -> number, tuple and list -> array,
\* dict -> object
JsonDumps(data) ==
    [k \in DOMAIN data |->
       [json |-> CASE data[k].py = "str" -> "string"
                   [] data[k].py = "int" -> "number"
                   [] data[k].py \in {"tuple", "list"} -> "array"
                   [] data[k].py = "dict" -> "object",
        v |-> data[k].v]]

JsonLoads_Mutant(text) ==
    [k \in DOMAIN text |-> [py |-> "str", v |-> "None"]]

\* json.loads: string -> str, number -> int, array -> list, object -> dict
JsonLoads(text) ==
    [k \in DOMAIN text |->
       [py |-> CASE text[k].json = "string" -> "str"
                 [] text[k].json = "number" -> "int"
                 [] text[k].json = "array" -> "list"
                 [] text[k].json = "object" -> "dict",
        v |-> text[k].v]]

\* store_meme_data, lines 203-210: the metadata written over meme_data
Stamped(meme_data, ttl) ==
    [created_at |-> PyStr("utcnow"),
     ttl |-> PyInt(IF ttl = {} THEN result_ttl ELSE CHOOSE n \in ttl : TRUE)]
      @@ meme_data

MissingFields_Mutant(data) == {"imageUrl"} \ DOMAIN data

\* store_meme_data, lines 213-214, and get_meme_data, lines 245-246
MissingFields(data) == {"imageUrl", "type", "memeId"} \ DOMAIN data

SetMeme(id, text) ==
    [k \in DOMAIN memes \cup {id} |-> IF k = id THEN text ELSE memes[k]]

\* the meme_data arguments of the calls: the required fields and a
\* created_at of the caller's, each left out or given a string, and the
\* records with all of them given a string, a tuple or a bytes value
MemeFields == {"imageUrl", "type", "memeId", "created_at"}
MemeValues == {PyStr("a"), PyTuple("a"), PyBytes("a")}
MemeInputs ==
    UNION {[fields -> {PyStr("a")}] : fields \in SUBSET MemeFields}
      \cup [MemeFields -> MemeValues]
\* the ttl argument: left at None, or given
Ttls == {{}, {result_ttl \div 24}}

IdleMemeCall == [op |-> "none"]

\* store_meme_data, lines 200-231
StoreMemeData ==
    \E meme_id \in JobIds, meme_data \in MemeInputs, ttl \in Ttls :
      LET data == Stamped(meme_data, ttl)
          Returns(ok) == [op |-> "store", meme_id |-> meme_id,
                          meme_data |-> meme_data, ok |-> ok]
      IN /\ \/ /\ MissingFields(data) # {} \/ ~JsonSerializable(data)
               /\ meme_call' = Returns(FALSE)
               /\ Succeeds
               /\ UNCHANGED memes
            \/ /\ MissingFields(data) = {} /\ JsonSerializable(data)
               /\ \/ /\ memes' = SetMeme(meme_id, JsonDumps(data))
                     /\ meme_call' = Returns(TRUE)
                     /\ Succeeds
                  \/ /\ meme_call' = Returns(FALSE)
                     /\ Fails
                     /\ UNCHANGED memes
         /\ UNCHANGED <<jobs, active_jobs, seeded, now, web, task, ujs, srem_failed, expiry, caption>>

\* get_meme_data, lines 233-255: the decoded record, or None
GetMemeData ==
    \E meme_id \in JobIds :
      LET Returns(found, data) == [op |-> "get", meme_id |-> meme_id,
                                   found |-> found, data |-> data]
      IN /\ \/ /\ meme_id \in DOMAIN memes
               /\ MissingFields(JsonLoads(memes[meme_id])) = {}
               /\ meme_call' = Returns(TRUE, JsonLoads(memes[meme_id]))
               /\ Succeeds
            \/ /\ \/ meme_id \notin DOMAIN memes
                  \/ /\ meme_id \in DOMAIN memes
                     /\ MissingFields(JsonLoads(memes[meme_id])) # {}
               /\ meme_call' = Returns(FALSE, EmptyDict)
               /\ Succeeds
            \/ /\ meme_call' = Returns(FALSE, EmptyDict)
               /\ Fails
         /\ UNCHANGED <<jobs, active_jobs, seeded, memes, now, web, task, ujs, srem_failed, expiry, caption>>

\* what get_meme_data returns to a handler when its Redis GET returns
MemeData(meme_id) ==
    IF meme_id \in DOMAIN memes /\ MissingFields(JsonLoads(memes[meme_id])) = {}
    THEN [found |-> TRUE, data |-> JsonLoads(memes[meme_id])]
    ELSE [found |-> FALSE, data |-> EmptyDict]

\* get_meme, app.py lines 205-230: 404 when get_meme_data returned None (a
\* store error included), else the record
GetMeme ==
    \E meme_id \in JobIds :
      LET Answers(response) ==
            [op |-> "get_meme", meme_id |-> meme_id, response |-> response]
      IN /\ \/ /\ meme_call' = Answers(IF MemeData(meme_id).found THEN 200 ELSE 404)
               /\ Succeeds
            \/ /\ meme_call' = Answers(404)
               /\ Fails
         /\ UNCHANGED <<jobs, active_jobs, seeded, memes, now, web, task, ujs, srem_failed, expiry, caption>>

\* share_meme, app.py lines 232-385: the HTTPException(404) of line 247 is
\* raised inside the try block, whose `except Exception` (383-385) catches it
\* and raises HTTPException(500); so does the TypeError of line 251 for an
\* imageUrl that is a number
ShareMeme ==
    \E meme_id \in JobIds :
      LET Answers(response) ==
            [op |-> "share_meme", meme_id |-> meme_id, response |-> response]
          meme_data == MemeData(meme_id)
      IN /\ \/ /\ meme_call' =
                    Answers(IF meme_data.found /\ meme_data.data["imageUrl"].py # "int"
                            THEN 200 ELSE 500)
               /\ Succeeds
            \/ /\ meme_call' = Answers(500)
               /\ Fails
         /\ UNCHANGED <<jobs, active_jobs, seeded, memes, now, web, task, ujs, srem_failed, expiry, caption>>

\* ------------------------------------------------------- the web process

IdleWeb(response, job_id, queue_length, uuids) ==
    [pc |-> "idle", kind |-> "none", response |-> response, job_id |-> job_id,
     queue_length |-> queue_length, uuids |-> uuids,
     snapshot |-> {}, snap_seeded |-> FALSE, cur |-> 0, cutoff |-> 0, cleaned |-> 0,
     \* history: the ids the running sweep found stale; the cutoff of the last
     \* sweep that ran to its end with no id added to the active set since,
     \* now and when the running handler started
     reaped |-> {}, swept |-> {}, prev |-> {}]

\* the handler returns `response`
Respond(response) ==
    [IdleWeb(response, web.job_id, web.queue_length, web.uuids) EXCEPT
       !.swept = web.swept]

\* generate_meme_endpoint, lines 111-117: the first count is only logged, then
\* cleanup_stale_jobs(1800) starts (redis_utils.py lines 148-149)
RequestStart ==
    /\ web.pc = "idle"
    /\ web.uuids < MaxJobs
    /\ \E t \in UtcNow :
         /\ now' = t
         /\ web' = [IdleWeb(0, 0, 0, web.uuids) EXCEPT
                      !.pc = "smembers", !.kind = "generate",
                      !.cutoff = t - max_age_seconds, !.swept = web.swept,
                      !.prev = web.swept]
    /\ UNCHANGED <<jobs, active_jobs, seeded, memes, task, ujs, store_faults, stage_faults, srem_failed, meme_call, expiry, caption>>

\* cleanup_stale_jobs endpoint, app.py lines 470-474
CleanupStart ==
    /\ web.pc = "idle"
    /\ \E t \in UtcNow :
         /\ now' = t
         /\ web' = [IdleWeb(0, 0, 0, web.uuids) EXCEPT
                      !.pc = "smembers", !.kind = "cleanup",
                      !.cutoff = t - max_age_seconds, !.swept = web.swept,
                      !.prev = web.swept]
    /\ UNCHANGED <<jobs, active_jobs, seeded, memes, task, ujs, store_faults, stage_faults, srem_failed, meme_call, expiry, caption>>

AfterSweep_Mutant == IF web.kind = "generate" THEN "idle" ELSE "pass2_smembers"

\* where the handler goes on when cleanup_stale_jobs has returned
AfterSweep == IF web.kind = "generate" THEN "scard" ELSE "pass2_smembers"

\* cleanup_stale_jobs, lines 152-153 (and 186-188 when smembers raises)
Sweep_Smembers ==
    /\ web.pc = "smembers"
    /\ \/ /\ web' = [web EXCEPT !.pc = "loop", !.snapshot = active_jobs,
                                !.snap_seeded = (seeded > 0)]
          /\ Succeeds
       \/ /\ web' = [web EXCEPT !.pc = AfterSweep, !.cleaned = 0]
          /\ Fails
    /\ UNCHANGED <<jobs, active_jobs, seeded, memes, now, task, ujs, srem_failed, meme_call, expiry, caption>>

\* cleanup_stale_jobs, lines 155-180: one iteration up to its first write
\* (and 186-188 when the comparison of line 171 raises).
\* The other ids of the set (`seeded`) were all created at time 0 and are
\* handled as one group: read and left alone, or all failed once stale.
Sweep_Next ==
    /\ web.pc = "loop"
    /\ \/ /\ web.snapshot = {} /\ ~web.snap_seeded
          /\ web' = [web EXCEPT !.pc = AfterSweep, !.swept = {web.cutoff}]
          /\ UNCHANGED <<ujs, seeded, store_faults, stage_faults>>
       \/ \E id \in web.snapshot :
            \/ /\ id \in DOMAIN jobs
               /\ ~CompareRaises(jobs[id])
               /\ IsStale(jobs[id], web.cutoff)
               /\ web' = [web EXCEPT !.pc = "reaping", !.snapshot = @ \ {id},
                                     !.reaped = @ \cup {id}]
               /\ ujs' = [ujs EXCEPT ![WEB] = Call(id, JOB_STATUS.FAILED,
                            [error |-> "Job timed out", cleanup_time |-> now])]
               /\ UNCHANGED <<seeded, store_faults, stage_faults>>
            \/ /\ id \in DOMAIN jobs
               /\ ~CompareRaises(jobs[id])
               /\ ~IsStale(jobs[id], web.cutoff)
               /\ web' = [web EXCEPT !.snapshot = @ \ {id}]
               /\ UNCHANGED <<ujs, seeded, store_faults, stage_faults>>
            \/ /\ id \in DOMAIN jobs
               /\ CompareRaises(jobs[id])
               /\ web' = [web EXCEPT !.pc = AfterSweep, !.cleaned = 0,
                                     !.snapshot = {}, !.snap_seeded = FALSE]
               /\ UNCHANGED <<ujs, seeded, store_faults, stage_faults>>
            \/ /\ id \notin DOMAIN jobs
               /\ web' = [web EXCEPT !.pc = "srem_missing", !.cur = id,
                                     !.snapshot = @ \ {id}]
               /\ UNCHANGED <<ujs, seeded, store_faults, stage_faults>>
            \/ /\ web' = [web EXCEPT !.pc = "srem_missing", !.cur = id,
                                     !.snapshot = @ \ {id}]
               /\ Fails
               /\ UNCHANGED <<ujs, seeded>>
       \/ /\ web.snap_seeded
          /\ IF 0 < web.cutoff
             THEN /\ seeded' = 0
                  /\ web' = [web EXCEPT !.snap_seeded = FALSE,
                                        !.cleaned = @ + seeded]
             ELSE /\ web' = [web EXCEPT !.snap_seeded = FALSE]
                  /\ UNCHANGED seeded
          /\ UNCHANGED <<ujs, store_faults, stage_faults>>
    /\ UNCHANGED <<jobs, active_jobs, memes, now, task, srem_failed, meme_call, expiry, caption>>

\* cleanup_stale_jobs, lines 159-163 (and 186-188 when srem raises)
Sweep_SremMissing ==
    /\ web.pc = "srem_missing"
    /\ \/ /\ active_jobs' = active_jobs \ {web.cur}
          /\ web' = [web EXCEPT !.pc = "loop", !.cur = 0, !.cleaned = @ + 1]
          /\ Succeeds
       \/ /\ web' = [web EXCEPT !.pc = AfterSweep, !.cur = 0, !.cleaned = 0,
                                !.snapshot = {}, !.snap_seeded = FALSE]
          /\ Fails
          /\ UNCHANGED active_jobs
    /\ UNCHANGED <<jobs, seeded, memes, now, task, ujs, srem_failed, meme_call, expiry, caption>>

\* cleanup_stale_jobs, line 181: the update returned, whatever its result
Sweep_Counted ==
    /\ web.pc = "reaping"
    /\ ujs[WEB].pc = "done"
    /\ web' = [web EXCEPT !.pc = "loop", !.cleaned = @ + 1]
    /\ ujs' = [ujs EXCEPT ![WEB] = IdleCall]
    /\ UNCHANGED <<jobs, active_jobs, seeded, memes, now, task, store_faults, stage_faults, srem_failed, meme_call, expiry, caption>>

OverCapacity_Mutant(length) == length >= CAPACITY

\* generate_meme_endpoint, line 123: the capacity check
OverCapacity(length) == length > CAPACITY

\* generate_meme_endpoint, lines 119-133: recount, capacity check, fresh uuid
Admit ==
    /\ web.pc = "scard"
    /\ \E length \in {QueueLength, 0} :
         /\ IF length = QueueLength THEN Succeeds ELSE Fails
         /\ IF OverCapacity(length)
            THEN web' = [Respond(503) EXCEPT !.queue_length = length]
            ELSE web' = [web EXCEPT !.pc = "add_setex", !.queue_length = length,
                                    !.job_id = web.uuids + 1, !.uuids = @ + 1,
                                    !.snapshot = {}, !.snap_seeded = FALSE,
                                    !.reaped = {}]
    /\ UNCHANGED <<jobs, active_jobs, seeded, memes, now, task, ujs, srem_failed, meme_call, expiry, caption>>

AddJobFailed_Mutant == [web EXCEPT !.pc = "delay"]

\* generate_meme_endpoint, lines 141-143 and 161-167: add_job returned False
AddJobFailed == Respond(500)

\* add_job, lines 46-61 (and 70-72 when setex raises)
AddJob_Setex ==
    /\ web.pc = "add_setex"
    /\ \/ /\ \E t \in UtcNow :
               /\ now' = t
               /\ jobs' = SetJob(web.job_id, NewJobRecord(t))
               /\ expiry' = SetExpiry(web.job_id, t + job_ttl)
          /\ web' = [web EXCEPT !.pc = "add_sadd"]
          /\ Succeeds
       \/ /\ web' = AddJobFailed
          /\ Fails
          /\ UNCHANGED <<jobs, now, expiry>>
    /\ UNCHANGED <<active_jobs, seeded, memes, task, ujs, srem_failed, meme_call, caption>>

\* add_job, lines 63-67 (and 70-72 when sadd raises)
AddJob_Sadd ==
    /\ web.pc = "add_sadd"
    /\ \/ /\ active_jobs' = active_jobs \cup {web.job_id}
          /\ web' = [web EXCEPT !.pc = "delay", !.swept = {}]
          /\ Succeeds
       \/ /\ web' = AddJobFailed
          /\ Fails
          /\ UNCHANGED active_jobs
    /\ UNCHANGED <<jobs, seeded, memes, now, task, ujs, srem_failed, meme_call, expiry, caption>>

\* Redis drops the key job:<id> when the lifetime its last SETEX gave it
\* (add_job line 59, update_job_status lines 122-131) has run out.  The
\* clock has then reached that time.  (The clock is followed up to MaxTicks
\* lifetimes.)
Expire(j) ==
    /\ j \in DOMAIN jobs
    /\ expiry[j] <= MaxTicks * job_ttl
    /\ now' = IF now < expiry[j] THEN expiry[j] ELSE now
    /\ jobs' = [k \in DOMAIN jobs \ {j} |-> jobs[k]]
    /\ expiry' = [k \in DOMAIN expiry \ {j} |-> expiry[k]]
    /\ UNCHANGED <<active_jobs, seeded, memes, web, task, ujs, store_faults, stage_faults, srem_failed, meme_call, caption>>

\* Time passes until less than half a second of the lifetime of job:<j> is
\* left; the key is still there.
Elapse(j) ==
    /\ j \in DOMAIN jobs
    /\ expiry[j] <= MaxTicks * job_ttl
    /\ now < expiry[j]
    /\ now' = expiry[j]
    /\ UNCHANGED <<jobs, active_jobs, seeded, memes, web, task, ujs, store_faults, stage_faults, srem_failed, meme_call, expiry, caption>>

\* a task record of the queue: its state, self.request.retries, the countdown
\* its last retry was scheduled with, the number of times a worker ran it,
\* whether an attempt's update_job_status(FAILED) has returned True, and the
\* position and locals of the running attempt (deadline: its stage was
\* interrupted by the soft time limit)
NoTask ==
    [state |-> "none", retries |-> 0, countdown |-> 0, runs |-> 0,
     marked |-> FALSE, pc |-> "none", image |-> "none", deadline |-> FALSE]

\* generate_meme, lines 17 and 21 of celery_config.py: past soft_time_limit
\* the queue raises SoftTimeLimitExceeded in the running stage; str(e) of it
SoftTimeLimitExceeded == "SoftTimeLimitExceeded()"

\* generate_meme_endpoint, lines 146-153: generate_meme.delay, then the call
\* of update_job_status(job_id, QUEUED, {task_id}) (161-167 when delay raises)
Delay ==
    /\ web.pc = "delay"
    /\ \/ /\ task' = [task EXCEPT ![web.job_id] = [NoTask EXCEPT !.state = "pending"]]
          /\ ujs' = [ujs EXCEPT ![WEB] =
                       Call(web.job_id, JOB_STATUS.QUEUED, [task_id |-> "task"])]
          /\ web' = [web EXCEPT !.pc = "task_id"]
          /\ Succeeds
       \/ /\ web' = Respond(500)
          /\ Fails
          /\ UNCHANGED <<task, ujs>>
    /\ UNCHANGED <<jobs, active_jobs, seeded, memes, now, srem_failed, meme_call, expiry, caption>>

\* generate_meme_endpoint, lines 155-159: the acceptance response
Accepted ==
    /\ web.pc = "task_id"
    /\ ujs[WEB].pc = "done"
    /\ web' = Respond(200)
    /\ ujs' = [ujs EXCEPT ![WEB] = IdleCall]
    /\ UNCHANGED <<jobs, active_jobs, seeded, memes, now, task, store_faults, stage_faults, srem_failed, meme_call, expiry, caption>>

\* cleanup_stale_jobs endpoint, app.py line 477 (and 493-498 when it raises)
Pass2_Smembers ==
    /\ web.pc = "pass2_smembers"
    /\ \/ /\ web' = [web EXCEPT !.pc = "pass2_loop", !.snapshot = active_jobs]
          /\ Succeeds
       \/ /\ web' = Respond(500)
          /\ Fails
    /\ UNCHANGED <<jobs, active_jobs, seeded, memes, now, task, ujs, srem_failed, meme_call, expiry, caption>>

\* cleanup_stale_jobs endpoint, app.py lines 478-491: the read of one id
Pass2_Next ==
    /\ web.pc = "pass2_loop"
    /\ \/ /\ web.snapshot = {}
          /\ web' = Respond(200)
          /\ Succeeds
       \/ \E id \in web.snapshot :
            \/ /\ id \in DOMAIN jobs
               /\ web' = [web EXCEPT !.snapshot = @ \ {id}]
               /\ Succeeds
            \/ /\ id \notin DOMAIN jobs
               /\ web' = [web EXCEPT !.pc = "pass2_srem", !.cur = id,
                                     !.snapshot = @ \ {id}]
               /\ Succeeds
            \/ /\ web' = [web EXCEPT !.pc = "pass2_srem", !.cur = id,
                                     !.snapshot = @ \ {id}]
               /\ Fails
    /\ UNCHANGED <<jobs, active_jobs, seeded, memes, now, task, ujs, srem_failed, meme_call, expiry, caption>>

\* cleanup_stale_jobs endpoint, app.py lines 481-483 (493-498 when srem raises)
Pass2_Srem ==
    /\ web.pc = "pass2_srem"
    /\ \/ /\ active_jobs' = active_jobs \ {web.cur}
          /\ web' = [web EXCEPT !.pc = "pass2_loop", !.cur = 0, !.cleaned = @ + 1]
          /\ Succeeds
       \/ /\ web' = Respond(500)
          /\ Fails
          /\ UNCHANGED active_jobs
    /\ UNCHANGED <<jobs, seeded, memes, now, task, ujs, srem_failed, meme_call, expiry, caption>>

\* force_clear_jobs endpoint, app.py lines 451-468: RedisService defines no
\* force_clear_all_jobs, so line 454 raises AttributeError before any Redis
\* command and the except branch answers 500
ForceClear ==
    /\ web.pc = "idle"
    /\ web' = Respond(500)
    /\ UNCHANGED <<jobs, active_jobs, seeded, memes, now, task, ujs, store_faults, stage_faults, srem_failed, meme_call, expiry, caption>>

\* ----------------------------------------------------- the Celery task

\* generate_meme, line 108: the countdown of self.retry
Countdown(retries) == 2 ^ retries

Raised_Mutant(t) ==
    [NoTask EXCEPT !.state = "pending", !.retries = t.retries + 1,
                   !.runs = t.runs, !.countdown = Countdown(t.retries),
                        !.marked = t.marked]

\* generate_meme, lines 104-109: the outer handler retries or gives up
Raised(t) ==
    IF t.retries < max_retries
    THEN [NoTask EXCEPT !.state = "pending", !.retries = t.retries + 1,
                        !.runs = t.runs, !.countdown = Countdown(t.retries),
                        !.marked = t.marked]
    ELSE [NoTask EXCEPT !.state = "failure", !.retries = t.retries,
                        !.runs = t.runs, !.countdown = t.countdown,
                        !.marked = t.marked]

\* generate_meme, lines 24-29: a worker takes the task (first run or retry)
\* and calls update_job_status(job_id, PROCESSING)
WorkerStart(j) ==
    /\ task[j].state = "pending"
    /\ task' = [task EXCEPT ![j] = [@ EXCEPT !.state = "running", !.pc = "processing",
                                             !.runs = @ + 1]]
    /\ ujs' = [ujs EXCEPT ![j] = Call(j, JOB_STATUS.PROCESSING, EmptyDict)]
    /\ UNCHANGED <<jobs, active_jobs, seeded, memes, now, web, store_faults, stage_faults, srem_failed, meme_call, expiry, caption>>

\* generate_meme, line 34: simulate_tweet is a coroutine function
\* (meme_generator.py line 174) and the task calls it without awaiting it, so
\* the call runs none of its body and returns a coroutine object
simulate_tweet == "coroutine object"

\* generate_meme, line 58: str(e) of the AttributeError that image.save
\* raises on a coroutine object
AttributeError == "'coroutine' object has no attribute 'save'"

WorkerGenerate_Mutant(j) ==
    /\ task[j].state = "running"
    /\ task[j].pc = "processing"
    /\ ujs[j].pc \in {"get", "done"}
    /\ task' = [task EXCEPT ![j] = [@ EXCEPT !.pc = "generated",
                                             !.image = simulate_tweet]]
    /\ ujs' = [ujs EXCEPT ![j] = IdleCall]
    /\ StageSucceeds
    /\ UNCHANGED <<jobs, active_jobs, seeded, memes, now, web, srem_failed, meme_call, expiry, caption>>

\* generate_meme, lines 32-51: image = simulate_tweet(...) is truthy, so the
\* check of line 42 passes; only the soft time limit can interrupt the stage,
\* and then update_job_status(job_id, FAILED, {error: str(e), stage}) is called
WorkerGenerate(j) ==
    /\ task[j].state = "running"
    /\ task[j].pc = "processing"
    /\ ujs[j].pc = "done"
    /\ \/ /\ simulate_tweet # "None"
          /\ task' = [task EXCEPT ![j] = [@ EXCEPT !.pc = "generated",
                                                   !.image = simulate_tweet]]
          /\ ujs' = [ujs EXCEPT ![j] = IdleCall]
          /\ StageSucceeds
       \/ \E e \in {SoftTimeLimitExceeded} :
            /\ task' = [task EXCEPT ![j] = [@ EXCEPT !.pc = "failing",
                            !.deadline = (e = SoftTimeLimitExceeded)]]
            /\ ujs' = [ujs EXCEPT ![j] = Call(j, JOB_STATUS.FAILED,
                         [error |-> e, stage |-> "generation"])]
            /\ StageFails
    /\ UNCHANGED <<jobs, active_jobs, seeded, memes, now, web, srem_failed, meme_call, expiry, caption>>

\* generate_meme, lines 55-77: image.save(buffered, format="PNG") raises
\* AttributeError on the coroutine object (or the soft time limit interrupts
\* the stage) before anything is uploaded, and
\* update_job_status(job_id, FAILED, {error: str(e), stage}) is called;
\* lines 59-68 and 80-102 (the upload, store_meme_data and the COMPLETED
\* update) are never reached
WorkerUpload(j) ==
    /\ task[j].state = "running"
    /\ task[j].pc = "generated"
    /\ task[j].image = simulate_tweet
    /\ \E e \in {AttributeError, SoftTimeLimitExceeded} :
         /\ task' = [task EXCEPT ![j] = [@ EXCEPT !.pc = "failing",
                         !.deadline = (e = SoftTimeLimitExceeded)]]
         /\ ujs' = [ujs EXCEPT ![j] = Call(j, JOB_STATUS.FAILED,
                      [error |-> e, stage |-> "upload"])]
         /\ StageFails
    /\ UNCHANGED <<jobs, active_jobs, seeded, memes, now, web, srem_failed, meme_call, expiry, caption>>

\* generate_meme, lines 52 and 78, then 104-109: the stage's exception is
\* re-raised after the FAILED update returned
WorkerReraise(j) ==
    /\ task[j].state = "running"
    /\ task[j].pc = "failing"
    /\ ujs[j].pc = "done"
    /\ task' = [task EXCEPT ![j] =
                  Raised([task[j] EXCEPT !.marked = @ \/ ujs[j].ok])]
    /\ ujs' = [ujs EXCEPT ![j] = IdleCall]
    /\ UNCHANGED <<jobs, active_jobs, seeded, memes, now, web, store_faults, stage_faults, srem_failed, meme_call, expiry, caption>>

\* ------------------------------------------------- the caption generator
\* Two functions are named generate_content: the one of
\* scripts/generate_single_panel_content.py, and the one meme_generator.py
\* defines at line 193 after importing the former (lines 19-22), which is the
\* one simulate_tweet (line 178) refers to.

\* generate_single_panel_content.py, line 131: the default of char_limit
char_limit == 75
\* generate_content, line 133: max_retries
content_max_retries == 3
\* wait_for_run_completion, line 38: max_retries
wait_max_retries == 30

\* Python values a call returns: None, the text of the assistant's message
\* (by its length), and the two placeholder strings
PyNone == [py |-> "NoneType", text |-> "", len |-> 0]
ResponseText(n) == [py |-> "str", text |-> "response", len |-> n]
\* generate_content, lines 164 and 200 (allow_emojis False)
Placeholder ==
    [py |-> "str", text |-> "Chubby Wubby is having a moment...", len |-> 34]
\* meme_generator.generate_content, line 240 (allow_emojis False)
Fallback ==
    [py |-> "str", text |-> "When in doubt, Chubby makes memes!", len |-> 34]

\* get_assistant_response, lines 58-67: None, or the text of the first message
Responses == {PyNone} \cup {ResponseText(n) : n \in {0, char_limit, char_limit + 1}}

\* Python's `not response`
Falsy(v) == v.py = "NoneType" \/ (v.py = "str" /\ v.len = 0)

\* the statuses the backend reports for a run
RunPending == {"queued", "in_progress"}
RunEnded == {"completed", "failed", "expired"}

IdleCaption ==
    [fn |-> "none", pc |-> "idle", attempt |-> 0, second |-> FALSE,
     retry_count |-> 0, run |-> "none", result |-> PyNone]

\* a caller calls one of the two functions
GenerateContentCall ==
    /\ caption.pc \in {"idle", "returned"}
    /\ \E fn \in {"single_panel", "meme_generator"} :
         caption' = [IdleCaption EXCEPT !.fn = fn, !.pc = "create"]
    /\ UNCHANGED <<jobs, active_jobs, seeded, memes, now, web, task, ujs, store_faults, stage_faults, srem_failed, meme_call, expiry>>

\* `return v`
Return(v) ==
    [caption EXCEPT !.pc = "returned", !.result = v, !.run = "none",
                    !.retry_count = 0, !.second = FALSE]

\* generate_content, line 134: the next iteration of the for loop
NextAttempt ==
    [caption EXCEPT !.pc = "create", !.attempt = @ + 1, !.run = "none",
                    !.retry_count = 0, !.second = FALSE]

\* generate_content, lines 168, 185, 189, 193: `continue`; after the last
\* iteration the loop ends and the function's body with it
Continue ==
    IF caption.attempt + 1 < content_max_retries THEN NextAttempt
    ELSE Return(PyNone)

\* generate_content, lines 159-164 and 197-201: the first wait returned False,
\* or the attempt raised: back off and retry, or the placeholder
RetryOrPlaceholder ==
    IF caption.attempt < content_max_retries - 1 THEN NextAttempt
    ELSE Return(Placeholder)

\* generate_content, lines 137-157 and 173-182: thread, messages and run are
\* created (or one of the calls raises)
Content_Create ==
    /\ caption.fn = "single_panel"
    /\ caption.pc \in {"create", "create2"}
    /\ \/ caption' = [caption EXCEPT !.pc = "wait", !.run = "queued",
                                     !.retry_count = 0,
                                     !.second = (caption.pc = "create2")]
       \/ caption' = RetryOrPlaceholder
    /\ UNCHANGED <<jobs, active_jobs, seeded, memes, now, web, task, ujs, store_faults, stage_faults, srem_failed, meme_call, expiry>>

\* generate_content, lines 159-164 and 184-185: wait_for_run_completion
\* returned False
WaitFailed == IF caption.second THEN Continue ELSE RetryOrPlaceholder

\* wait_for_run_completion, lines 40-49 and 52-56: one retrieve of the loop
Wait_Retrieve ==
    /\ caption.fn = "single_panel"
    /\ caption.pc = "wait"
    /\ IF caption.retry_count < wait_max_retries
       THEN \/ caption' = WaitFailed
            \/ /\ caption.run = "completed"
               /\ caption' = [caption EXCEPT !.pc = "response"]
            \/ /\ caption.run \in {"failed", "expired"}
               /\ caption' = WaitFailed
            \/ /\ caption.run \in RunPending
               /\ caption' = [caption EXCEPT !.pc = "sleep"]
       ELSE caption' = WaitFailed
    /\ UNCHANGED <<jobs, active_jobs, seeded, memes, now, web, task, ujs, store_faults, stage_faults, srem_failed, meme_call, expiry>>

\* wait_for_run_completion, lines 50-51
Wait_Sleep ==
    /\ caption.fn = "single_panel"
    /\ caption.pc = "sleep"
    /\ caption' = [caption EXCEPT !.pc = "wait", !.retry_count = @ + 1]
    /\ UNCHANGED <<jobs, active_jobs, seeded, memes, now, web, task, ujs, store_faults, stage_faults, srem_failed, meme_call, expiry>>

\* generate_content, lines 166-172 and 187-195: the response is read and
\* checked against char_limit
Content_Response ==
    /\ caption.fn = "single_panel"
    /\ caption.pc = "response"
    /\ \E response \in Responses :
         caption' =
           IF Falsy(response) THEN Continue
           ELSE IF response.len > char_limit
                THEN IF caption.second THEN Continue
                     ELSE [caption EXCEPT !.pc = "create2"]
                ELSE Return(response)
    /\ UNCHANGED <<jobs, active_jobs, seeded, memes, now, web, task, ujs, store_faults, stage_faults, srem_failed, meme_call, expiry>>

\* the backend works on the run: it may leave it pending for ever
RunProgress ==
    /\ caption.run \in RunPending
    /\ \E status \in {"in_progress"} \cup RunEnded :
         /\ status # caption.run
         /\ caption' = [caption EXCEPT !.run = status]
    /\ UNCHANGED <<jobs, active_jobs, seeded, memes, now, web, task, ujs, store_faults, stage_faults, srem_failed, meme_call, expiry>>

\* meme_generator.generate_content, lines 195-226 (238-240 when a call raises)
MG_Create ==
    /\ caption.fn = "meme_generator"
    /\ caption.pc = "create"
    /\ \/ caption' = [caption EXCEPT !.pc = "retrieve", !.run = "queued"]
       \/ caption' = Return(Fallback)
    /\ UNCHANGED <<jobs, active_jobs, seeded, memes, now, web, task, ujs, store_faults, stage_faults, srem_failed, meme_call, expiry>>

\* meme_generator.generate_content, lines 229-236: one retrieve of the
\* `while True` loop (238-240 when a call raises); only 'completed' leaves it
MG_Retrieve ==
    /\ caption.fn = "meme_generator"
    /\ caption.pc = "retrieve"
    /\ \/ caption' = Return(Fallback)
       \/ /\ caption.run = "completed"
          /\ \E response \in Responses \ {PyNone} : caption' = Return(response)
       \/ /\ caption.run # "completed"
          /\ caption' = [caption EXCEPT !.pc = "sleep"]
    /\ UNCHANGED <<jobs, active_jobs, seeded, memes, now, web, task, ujs, store_faults, stage_faults, srem_failed, meme_call, expiry>>

\* meme_generator.generate_content, line 237
MG_Sleep ==
    /\ caption.fn = "meme_generator"
    /\ caption.pc = "sleep"
    /\ caption' = [caption EXCEPT !.pc = "retrieve"]
    /\ UNCHANGED <<jobs, active_jobs, seeded, memes, now, web, task, ujs, store_faults, stage_faults, srem_failed, meme_call, expiry>>

\* --------------------------------------------------------- specification

Init ==
    /\ jobs = EmptyDict
    /\ active_jobs = {}
    /\ seeded \in SeedCounts
    /\ memes = EmptyDict
    /\ now = 0
    /\ web = IdleWeb(0, 0, 0, 0)
    /\ task = [j \in JobIds |-> NoTask]
    /\ ujs = [p \in Procs |-> IdleCall]
    /\ store_faults = 0
    /\ stage_faults = 0
    /\ srem_failed = {}
    /\ meme_call = IdleMemeCall
    /\ expiry = EmptyDict
    /\ caption = IdleCaption

Next ==
    \/ RequestStart
    \/ CleanupStart
    \/ Sweep_Smembers
    \/ Sweep_Next
    \/ Sweep_SremMissing
    \/ Sweep_Counted
    \/ Admit
    \/ AddJob_Setex
    \/ AddJob_Sadd
    \/ Delay
    \/ Accepted
    \/ Pass2_Smembers
    \/ Pass2_Next
    \/ Pass2_Srem
    \/ ForceClear
    \/ \E p \in Procs : UJS_Get(p)
    \/ \E p \in Procs : UJS_Setex(p)
    \/ \E p \in Procs : UJS_Srem(p)
    \/ \E j \in JobIds : WorkerStart(j)
    \/ \E j \in JobIds : WorkerGenerate(j)
    \/ \E j \in JobIds : WorkerUpload(j)
    \/ \E j \in JobIds : WorkerReraise(j)

Spec == Init /\ [][Next]_vars

\* One task through all its attempts: every submission has been accepted
\* (Accepted has answered for each id) and no worker has started; the web
\* process receives no further request.  Every attempt ends with a stage's
\* exception: the count of stage exceptions starts with a credit of one per
\* attempt.
RetryInit ==
    /\ jobs = [j \in JobIds |->
                 UpdatedRecord(NewJobRecord(0), JOB_STATUS.QUEUED, [task_id |-> "task"])]
    /\ active_jobs = JobIds
    /\ seeded = 0
    /\ memes = EmptyDict
    /\ now = 0
    /\ web = IdleWeb(200, MaxJobs, MaxJobs - 1, MaxJobs)
    /\ task = [j \in JobIds |-> [NoTask EXCEPT !.state = "pending"]]
    /\ ujs = [p \in Procs |-> IdleCall]
    /\ store_faults = 0
    /\ stage_faults = MaxStageFaults - (max_retries + 1)
    /\ srem_failed = {}
    /\ meme_call = IdleMemeCall
    /\ expiry = [j \in JobIds |-> job_ttl]
    /\ caption = IdleCaption

RetryNext ==
    \/ \E j \in JobIds : UJS_Get(j)
    \/ \E j \in JobIds : UJS_Setex(j)
    \/ \E j \in JobIds : UJS_Srem(j)
    \/ \E j \in JobIds : WorkerStart(j)
    \/ \E j \in JobIds : WorkerGenerate(j)
    \/ \E j \in JobIds : WorkerUpload(j)
    \/ \E j \in JobIds : WorkerReraise(j)

RetrySpec == RetryInit /\ [][RetryNext]_vars

\* An accepted job to the end of its record's life: the task's attempts, the
\* cleanup endpoint called again and again, and the expiry of the record.
\* The web process receives no further submission and the store stays
\* reachable: no Redis command raises.
ReapInit ==
    /\ jobs = [j \in JobIds |->
                 UpdatedRecord(NewJobRecord(0), JOB_STATUS.QUEUED, [task_id |-> "task"])]
    /\ active_jobs = JobIds
    /\ seeded = 0
    /\ memes = EmptyDict
    /\ now = 0
    /\ web = IdleWeb(200, MaxJobs, MaxJobs - 1, MaxJobs)
    /\ task = [j \in JobIds |-> [NoTask EXCEPT !.state = "pending"]]
    /\ ujs = [p \in Procs |-> IdleCall]
    /\ store_faults = MaxStoreFaults
    /\ stage_faults = 0
    /\ srem_failed = {}
    /\ meme_call = IdleMemeCall
    /\ expiry = [j \in JobIds |-> job_ttl]
    /\ caption = IdleCaption

ReapNext ==
    \/ CleanupStart
    \/ Sweep_Smembers
    \/ Sweep_Next
    \/ Sweep_SremMissing
    \/ Sweep_Counted
    \/ Pass2_Smembers
    \/ Pass2_Next
    \/ Pass2_Srem
    \/ \E p \in Procs : UJS_Get(p)
    \/ \E p \in Procs : UJS_Setex(p)
    \/ \E p \in Procs : UJS_Srem(p)
    \/ \E j \in JobIds : WorkerStart(j)
    \/ \E j \in JobIds : WorkerGenerate(j)
    \/ \E j \in JobIds : WorkerUpload(j)
    \/ \E j \in JobIds : WorkerReraise(j)
    \/ \E j \in JobIds : Expire(j)

ReapSpec == ReapInit /\ [][ReapNext]_vars

\* An accepted job and the lifetime of its record: the task's attempts, which
\* call update_job_status, while time passes and the record expires.  No
\* Redis command raises.
TtlNext ==
    \/ \E j \in JobIds : UJS_Get(j)
    \/ \E j \in JobIds : UJS_Setex(j)
    \/ \E j \in JobIds : UJS_Srem(j)
    \/ \E j \in JobIds : WorkerStart(j)
    \/ \E j \in JobIds : WorkerGenerate(j)
    \/ \E j \in JobIds : WorkerUpload(j)
    \/ \E j \in JobIds : WorkerReraise(j)
    \/ \E j \in JobIds : Expire(j)
    \/ \E j \in JobIds : Elapse(j)

TtlSpec == ReapInit /\ [][TtlNext]_vars

\* Several accepted jobs side by side: each one's task, and the cleanup
\* endpoint sweeping over all of them, interleaved per Redis command.  No
\* Redis command raises.
PairIds == 1..(MaxJobs + 1)

PairInit ==
    /\ jobs = [j \in PairIds |->
                 UpdatedRecord(NewJobRecord(0), JOB_STATUS.QUEUED, [task_id |-> "task"])]
    /\ active_jobs = PairIds
    /\ seeded = 0
    /\ memes = EmptyDict
    /\ now = 0
    /\ web = IdleWeb(200, MaxJobs + 1, MaxJobs, MaxJobs + 1)
    /\ task = [j \in PairIds |-> [NoTask EXCEPT !.state = "pending"]]
    /\ ujs = [p \in {WEB} \cup PairIds |-> IdleCall]
    /\ store_faults = MaxStoreFaults
    /\ stage_faults = 0
    /\ srem_failed = {}
    /\ meme_call = IdleMemeCall
    /\ expiry = [j \in PairIds |-> job_ttl]
    /\ caption = IdleCaption

PairNext ==
    \/ CleanupStart
    \/ Sweep_Smembers
    \/ Sweep_Next
    \/ Sweep_Counted
    \/ Pass2_Smembers
    \/ Pass2_Next
    \/ \E p \in {WEB} \cup PairIds : UJS_Get(p)
    \/ \E p \in {WEB} \cup PairIds : UJS_Setex(p)
    \/ \E p \in {WEB} \cup PairIds : UJS_Srem(p)
    \/ \E j \in PairIds : WorkerStart(j)
    \/ \E j \in PairIds : WorkerGenerate(j)
    \/ \E j \in PairIds : WorkerUpload(j)
    \/ \E j \in PairIds : WorkerReraise(j)

PairSpec == PairInit /\ [][PairNext]_vars

\* a sweep that starts when the clock has passed every record's threshold
LateSweep ==
    /\ CleanupStart
    /\ \A j \in DOMAIN jobs : jobs[j]["created_at"].t + max_age_seconds < now'

\* The same, scheduled: a handler that has started runs to its end (the
\* endpoint's code has no await), the cleanup endpoint is called again and
\* again and the clock moves on.  Nothing is assumed of the workers.
ReapFairness ==
    /\ WF_vars(Sweep_Smembers)
    /\ WF_vars(Sweep_Next)
    /\ WF_vars(Sweep_SremMissing)
    /\ WF_vars(Sweep_Counted)
    /\ WF_vars(Pass2_Smembers)
    /\ WF_vars(Pass2_Next)
    /\ WF_vars(Pass2_Srem)
    /\ WF_vars(UJS_Get(WEB))
    /\ WF_vars(UJS_Setex(WEB))
    /\ WF_vars(UJS_Srem(WEB))
    /\ SF_vars(LateSweep)

ReapLiveSpec == ReapSpec /\ ReapFairness

\* The sweep over records as it may find them in the store: an indexed job
\* whose task is lost and whose created_at is as add_job writes it, missing,
\* or one of the values cleanup_stale_jobs provides for (lines 165-169).
StoredRecords ==
    {NewJobRecord(0)} \cup
    {[NewJobRecord(0) EXCEPT !["created_at"] = v] :
       v \in {AwareIsoFormat(0), NoIsoFormat, JsonNumber}} \cup
    {[k \in DOMAIN NewJobRecord(0) \ {"created_at"} |-> NewJobRecord(0)[k]]}

SweepInit ==
    /\ jobs \in [JobIds -> StoredRecords]
    /\ active_jobs = JobIds
    /\ seeded \in {0, CAPACITY}
    /\ memes = EmptyDict
    /\ now = 0
    /\ web = IdleWeb(0, 0, 0, MaxJobs)
    /\ task = [j \in JobIds |-> NoTask]
    /\ ujs = [p \in Procs |-> IdleCall]
    /\ store_faults = 0
    /\ stage_faults = 0
    /\ srem_failed = {}
    /\ meme_call = IdleMemeCall
    /\ expiry = [j \in JobIds |-> job_ttl]
    /\ caption = IdleCaption

SweepNext ==
    \/ CleanupStart
    \/ Sweep_Smembers
    \/ Sweep_Next
    \/ Sweep_SremMissing
    \/ Sweep_Counted
    \/ Pass2_Smembers
    \/ Pass2_Next
    \/ Pass2_Srem
    \/ UJS_Get(WEB)
    \/ UJS_Setex(WEB)
    \/ UJS_Srem(WEB)

SweepSpec == SweepInit /\ [][SweepNext]_vars

\* The caption generator alone: callers of the two generate_content
\* functions, and the text-generation backend working on their runs.
CaptionInit == Init /\ seeded = 0

CaptionNext ==
    \/ GenerateContentCall
    \/ Content_Create
    \/ Wait_Retrieve
    \/ Wait_Sleep
    \/ Content_Response
    \/ RunProgress
    \/ MG_Create
    \/ MG_Retrieve
    \/ MG_Sleep

CaptionSpec == CaptionInit /\ [][CaptionNext]_vars

\* The same, scheduled: the process that runs a call keeps running it.
\* Nothing is assumed of the backend nor of callers.
CaptionFairness ==
    /\ WF_vars(Content_Create)
    /\ WF_vars(Wait_Retrieve)
    /\ WF_vars(Wait_Sleep)
    /\ WF_vars(Content_Response)
    /\ WF_vars(MG_Create)
    /\ WF_vars(MG_Retrieve)
    /\ WF_vars(MG_Sleep)

CaptionLiveSpec == CaptionSpec /\ CaptionFairness

\* The meme and share pages over records as they may be found in the store:
\* no record, or a JSON object with any of the fields.
StoredMemes == {JsonDumps(m) : m \in {x \in MemeInputs : JsonSerializable(x)}}

PageInit ==
    /\ jobs = EmptyDict
    /\ active_jobs = {}
    /\ seeded = 0
    /\ memes \in {EmptyDict} \cup [JobIds -> StoredMemes]
    /\ now = 0
    /\ web = IdleWeb(0, 0, 0, 0)
    /\ task = [j \in JobIds |-> NoTask]
    /\ ujs = [p \in Procs |-> IdleCall]
    /\ store_faults = 0
    /\ stage_faults = 0
    /\ srem_failed = {}
    /\ meme_call = IdleMemeCall
    /\ expiry = EmptyDict
    /\ caption = IdleCaption

PageNext == GetMemeData \/ GetMeme \/ ShareMeme

PageSpec == PageInit /\ [][PageNext]_vars

\* The artifact records alone: clients of RedisService store and read meme
\* records while no job is in the system.
ArtifactInit == Init /\ seeded = 0

ArtifactNext == StoreMemeData \/ GetMemeData

ArtifactSpec == ArtifactInit /\ [][ArtifactNext]_vars

\* ---------------------------------------------------------- properties

Status(j) == jobs[j]["status"]
History(j) == jobs[j]["status_history"]
TerminalStatuses == {JOB_STATUS.COMPLETED, JOB_STATUS.FAILED}
IsPrefix(s, t) == Len(s) <= Len(t) /\ \A i \in 1..Len(s) : s[i] = t[i]

\* no handler is running and no task is running or waiting to run
Quiescent ==
    /\ web.pc = "idle"
    /\ \A j \in JobIds : task[j].state \notin {"pending", "running"}

\* no handler is running and no process is inside update_job_status
StoreIdle ==
    /\ web.pc = "idle"
    /\ \A p \in Procs : ujs[p].pc \in {"idle", "done"}

\* C1: the step that reads the count after the sweep answers 503 exactly when
\* the count read is above 100 and goes on to add_job otherwise; a step that
\* answers 503 is that step, has generated no job id, and writes no job
\* record, no index entry, no artifact and dispatches no task.
C1_AdmissionByCount ==
    [][ /\ (web.pc = "scard" /\ web'.pc # "scard") =>
             /\ (web'.response = 503) <=> (web'.queue_length > CAPACITY)
             /\ (web'.queue_length <= CAPACITY) => (web'.pc = "add_setex")
        /\ (web'.response = 503 /\ web.response # 503) =>
             /\ web.pc = "scard"
             /\ web'.job_id = 0
             /\ jobs' = jobs
             /\ active_jobs' = active_jobs
             /\ seeded' = seeded
             /\ memes' = memes
             /\ task' = task
      ]_vars

C1_Witness == web.response = 503 /\ web.queue_length = CAPACITY + 1

C4_Original ==
    (StoreIdle /\ store_faults = 0) =>
      \A j \in DOMAIN jobs :
        Status(j) \in {JOB_STATUS.QUEUED, JOB_STATUS.PROCESSING} => j \in active_jobs

\* C5 (as stated): when an attempt ends with an exception, the record is
\* FAILED with a stage tag.
C5_Original ==
    [][ \A j \in JobIds :
          ( /\ task[j].state = "running"
            /\ task'[j].state \in {"pending", "failure"}
            /\ store_faults' = 0
            /\ j \in DOMAIN jobs' )
          => ( /\ jobs'[j]["status"] = JOB_STATUS.FAILED
               /\ "stage" \in DOMAIN jobs'[j] ) ]_vars

\* C6 (as stated, as the final result): a job accepted with an empty active
\* set, none of whose attempts met a store error or the time limit, is
\* COMPLETED with a result once the queue has finished with its task.
C6_Original ==
    \A j \in JobIds :
      ( /\ task[j].state \in {"success", "failure"}
        /\ store_faults = 0
        /\ seeded = 0
        /\ j \in DOMAIN jobs
        /\ ("error" \in DOMAIN jobs[j] => jobs[j]["error"] # SoftTimeLimitExceeded) )
      => ( /\ Status(j) = JOB_STATUS.COMPLETED
           /\ "result" \in DOMAIN jobs[j] )

\* C7 (as stated): when the acceptance response has been returned and the
\* worker has not started, the record is QUEUED with a history of length 1.
C7_Original ==
    ( /\ web.pc = "idle"
      /\ web.response = 200
      /\ web.job_id \in JobIds
      /\ store_faults = 0
      /\ task[web.job_id].state = "pending"
      /\ task[web.job_id].retries = 0 )
    => ( /\ Status(web.job_id) = JOB_STATUS.QUEUED
         /\ Len(History(web.job_id)) = 1 )

\* C8 (as stated): every step leaves each stored history a prefix of the
\* history stored after it.
C8_Original ==
    [][ \A j \in DOMAIN jobs :
          IsPrefix(History(j), jobs'[j]["status_history"]) ]_vars

\* C9: the last status_history entry of every stored record carries the
\* record's status.
C9_LastEntryIsStatus ==
    \A j \in DOMAIN jobs :
      /\ Len(History(j)) > 0
      /\ History(j)[Len(History(j))].status = Status(j)

C9_Witness ==
    \E j \in DOMAIN jobs :
      Status(j) \in TerminalStatuses /\ Len(History(j)) >= 3

\* C10: a task is dispatched only by the handler that has passed add_job, for
\* its own job id, whose record and active-set entry then exist; when add_job
\* fails the handler answers 500 and dispatches nothing.
C10_DispatchAfterAddJob ==
    [][ /\ \A j \in JobIds :
             (task[j].state = "none" /\ task'[j].state # "none") =>
               /\ web.pc = "delay"
               /\ web.job_id = j
               /\ j \in DOMAIN jobs
               /\ j \in active_jobs
        /\ (web.pc \in {"add_setex", "add_sadd"} /\ web'.pc \notin {web.pc, "add_sadd", "delay"}) =>
             /\ web'.pc = "idle"
             /\ web'.response = 500
             /\ task' = task
      ]_vars

C10_Witness ==
    /\ web.response = 500
    /\ web.job_id # 0
    /\ web.job_id \notin active_jobs
    /\ task[web.job_id].state = "none"

\* the steps of cleanup_stale_jobs, and the step after it has returned
SweepPcs == {"smembers", "loop", "reaping", "srem_missing"}
SweepReturned == {"scard", "pass2_smembers"}

\* C11 (as stated): when a sweep has run to its end, every id it found in the
\* active set with a record created before the cutoff has a FAILED record
\* with error "Job timed out" and is not in the active set.
C11_Original ==
    [][ (web.pc = "loop" /\ web'.pc \in SweepReturned /\ store_faults' = 0) =>
          \A j \in web.reaped :
            /\ j \in DOMAIN jobs'
            /\ jobs'[j]["status"] = JOB_STATUS.FAILED
            /\ "error" \in DOMAIN jobs'[j]
            /\ jobs'[j]["error"] = "Job timed out"
            /\ j \notin active_jobs' ]_vars

C13_Original ==
    [][ \A j \in DOMAIN jobs :
          ( /\ Status(j) \in TerminalStatuses
            /\ jobs'[j]["status"] # Status(j)
            /\ store_faults' = 0 )
          => ( /\ Status(j) = JOB_STATUS.FAILED
               /\ jobs'[j]["status"] = JOB_STATUS.PROCESSING
               /\ j \in JobIds
               /\ task[j].retries > 0
               /\ ujs[j].pc = "setex"
               /\ ujs'[j].pc = "done" ) ]_vars

\* C14: a task is run at most 4 times; an attempt that raises with retry
\* count k in 0..2 is rescheduled with retry count k + 1 and countdown 2^k;
\* an attempt with retry count 3 ends the task, and an ended task is never
\* scheduled or run again.
C14_BoundedRetries ==
    [][ \A j \in JobIds :
          /\ task'[j].runs <= 4
          /\ (task[j].state = "running" /\ task'[j].state = "pending") =>
               /\ task[j].retries \in {0, 1, 2}
               /\ task'[j].retries = task[j].retries + 1
               /\ task'[j].countdown = 2 ^ task[j].retries
          /\ (task[j].state = "running" /\ task[j].retries = 3) =>
               task'[j].state \in {"running", "success", "failure"}
          /\ (task[j].state \in {"success", "failure"}) => task'[j] = task[j]
      ]_vars

C14_Witness ==
    \E j \in JobIds :
      /\ task[j].state = "failure"
      /\ task[j].runs = 4
      /\ task[j].retries = 3
      /\ task[j].countdown = 4

\* s has entries with the statuses a, b, c in that order
HasInOrder(s, a, b, c) ==
    \E i, k, l \in 1..Len(s) :
      /\ i < k /\ k < l
      /\ s[i].status = a /\ s[k].status = b /\ s[l].status = c

\* C16 (as stated, for the write): when the time limit has interrupted a
\* stage of an attempt and the attempt's FAILED update has returned, the
\* record is FAILED with error "Generation timed out".
C16_Original ==
    \A j \in JobIds :
      ( /\ task[j].state = "running"
        /\ task[j].pc = "failing"
        /\ task[j].deadline
        /\ ujs[j].pc = "done"
        /\ store_faults = 0
        /\ web.pc = "idle" /\ web.response = 200 )
      => ( /\ j \in DOMAIN jobs
           /\ Status(j) = JOB_STATUS.FAILED
           /\ jobs[j]["error"] = "Generation timed out" )

\* imageUrl, type and memeId are all supplied
RequiredPresent(meme_data) == {"imageUrl", "type", "memeId"} \subseteq DOMAIN meme_data

\* a get_meme_data call that follows, with no error of the store, a
\* store_meme_data call that returned True for the same id and a record with
\* the required fields
GetAfterStore ==
    /\ meme_call.op = "store"
    /\ meme_call.ok
    /\ RequiredPresent(meme_call.meme_data)
    /\ meme_call'.op = "get"
    /\ meme_call'.meme_id = meme_call.meme_id
    /\ store_faults' = store_faults

C18_RejectsMissing ==
    [][ /\ (meme_call'.op = "store" /\ ~RequiredPresent(meme_call'.meme_data)) =>
             (~meme_call'.ok /\ memes' = memes)
        /\ ( /\ meme_call.op = "store"
             /\ ~RequiredPresent(meme_call.meme_data)
             /\ meme_call.meme_id \notin DOMAIN memes
             /\ meme_call'.op = "get"
             /\ meme_call'.meme_id = meme_call.meme_id ) => ~meme_call'.found
      ]_vars

C18_Witness ==
    /\ meme_call.op = "store"
    /\ ~meme_call.ok
    /\ DOMAIN meme_call.meme_data = {"imageUrl", "type"}
    /\ store_faults = 0
    /\ meme_call.meme_id \notin DOMAIN memes

\* C19 (as stated): every FAILED record has an error and an error_type.
C19_Original ==
    \A j \in DOMAIN jobs :
      (Status(j) = JOB_STATUS.FAILED /\ store_faults = 0) =>
        /\ "error" \in DOMAIN jobs[j]
        /\ "error_type" \in DOMAIN jobs[j]

\* C20 (as stated): a record has a result only when COMPLETED and an error
\* only when FAILED.
C20_Original ==
    \A j \in DOMAIN jobs :
      store_faults = 0 =>
        /\ "result" \in DOMAIN jobs[j] => Status(j) = JOB_STATUS.COMPLETED
        /\ "error" \in DOMAIN jobs[j] => Status(j) = JOB_STATUS.FAILED

\* C21 (as stated, for one attempt): an attempt that meets no store error
\* and is not interrupted by the time limit does not end with an exception,
\* whatever the caption generator would do: it goes on to COMPLETED.
C21_Original ==
    [][ \A j \in JobIds :
          ( /\ task[j].state = "running"
            /\ ~task[j].deadline
            /\ store_faults' = 0 )
          => task'[j].state \notin {"pending", "failure"} ]_vars

\* C22: with the store reachable, sweeps invoked again and again and the
\* clock moving on, every id of the in-flight index is eventually removed
\* from it, also when no worker ever takes its task.
C22_EventuallyRemoved ==
    \A j \in JobIds : (j \in active_jobs) ~> (j \notin active_jobs)

C22_Witness ==
    \E j \in JobIds :
      /\ j \notin active_jobs
      /\ task[j].runs = 0
      /\ j \in DOMAIN jobs
      /\ Status(j) = JOB_STATUS.FAILED
      /\ jobs[j]["error"] = "Job timed out"
      /\ web.reaped = {j}

\* C23 (as stated): a force-clear request leaves the in-flight index empty
\* and is answered with the number cleared, not with an error.
C23_Original ==
    [][ ForceClear =>
          /\ active_jobs' = {}
          /\ seeded' = 0
          /\ web'.response = 200 ]_vars

\* C24: a call of update_job_status that finds no record for its job id ends
\* in that step with result False, whatever the status it was given; the
\* step writes no record and leaves the index as it is.
C24_AbsentRecordUntouched ==
    [][ \A p \in Procs :
          ( /\ ujs[p].pc = "get"
            /\ ujs[p].job_id \notin DOMAIN jobs
            /\ ujs'[p] # ujs[p] )
          => ( /\ ujs'[p] = [pc |-> "done", ok |-> FALSE]
               /\ jobs' = jobs
               /\ active_jobs' = active_jobs ) ]_vars

C24_Witness ==
    /\ web.pc = "reaping"
    /\ ujs[WEB] = [pc |-> "done", ok |-> FALSE]
    /\ \E j \in web.reaped : j \notin DOMAIN jobs /\ j \in active_jobs

\* C26 (as stated): the in-flight index never holds more than 101 ids.
C26_Original == Cardinality(active_jobs) + seeded <= CAPACITY + 1

\* the history shows a terminal write of the reaper and one of the worker
BothWrote(j) ==
    /\ \E i \in 1..Len(History(j)) :
         History(j)[i] = [status |-> JOB_STATUS.FAILED, error |-> "Job timed out"]
    /\ \E i \in 1..Len(History(j)) :
         /\ History(j)[i].status = JOB_STATUS.FAILED
         /\ "error" \in DOMAIN History(j)[i]
         /\ History(j)[i].error \in {AttributeError, SoftTimeLimitExceeded}

\* a terminal update that writes sets the record's status and error to its
\* own, whatever was stored
TerminalWriteDecides ==
    \A p \in Procs :
      (ujs[p].pc = "setex" /\ ujs'[p].pc = "srem")
      => ( /\ jobs'[ujs[p].job_id]["status"] = ujs[p].status
           /\ jobs'[ujs[p].job_id]["error"] = ujs[p].additional_data["error"] )

C28_Original ==
    [][ (web.pc = "srem_missing" /\ active_jobs' # active_jobs)
          => web.cur \notin DOMAIN jobs ]_vars

\* C29 (as stated, for a stale job): the sweep counts a stale job only when
\* its FAILED update has succeeded.
C29_Original ==
    [][ ( /\ web.pc = "reaping"
          /\ web'.pc = "loop"
          /\ web'.cleaned = web.cleaned + 1 )
        => ujs[WEB].ok ]_vars

\* a created_at the sweep cannot use as a naive timestamp
BadCreatedAt(job_data) ==
    \/ "created_at" \notin DOMAIN job_data
    \/ job_data["created_at"].v # "naive"

C31_SweepFailureDoesNotBlock ==
    [][ /\ (web.kind = "generate" /\ web.pc \in SweepPcs /\ web'.pc \notin SweepPcs)
           => (web'.pc = "scard" /\ web'.response = 0)
        /\ (web.pc = "scard" /\ web'.pc # "scard")
           => /\ web'.queue_length \in {QueueLength, 0}
              /\ IF web'.queue_length > CAPACITY
                 THEN web'.pc = "idle" /\ web'.response = 503
                 ELSE web'.pc = "add_setex"
      ]_vars

\* an admission request whose sweep did not run to its end (no sweep has yet)
\* is past the capacity check, creating its job
C31_Witness ==
    /\ web.kind = "generate"
    /\ web.pc = "add_setex"
    /\ web.swept = {}
    /\ store_faults > 0

\* a step of the running sweep: of cleanup_stale_jobs itself or of the
\* update_job_status it called
SweepStep ==
    /\ web.pc \in SweepPcs
    /\ web' # web \/ ujs'[WEB] # ujs[WEB]

\* C32 (as stated): no step of a sweep writes the record of a job that exists
\* with created_at not before the sweep's cutoff, nor takes its id out of the
\* active set.
C32_Original ==
    [][ SweepStep =>
          \A j \in DOMAIN jobs :
            ( /\ jobs[j]["created_at"].v = "naive"
              /\ jobs[j]["created_at"].t >= web.cutoff )
            => /\ j \in DOMAIN jobs'
               /\ jobs'[j] = jobs[j]
               /\ j \in active_jobs => j \in active_jobs'
      ]_vars

\* the lifetime the record of job `id` has left (none when it has expired)
RemainingLifetime(id) == IF id \in DOMAIN jobs THEN expiry[id] - now ELSE 0

\* C33 (as stated): the ttl-and-setex step of an update, when no Redis
\* command is refused for a store error, succeeds and leaves the record with
\* no more lifetime than it had before the step.
C33_Original ==
    [][ \A p \in Procs :
          ( /\ ujs[p].pc = "setex"
            /\ ujs'[p].pc # "setex"
            /\ store_faults' = store_faults )
          => /\ ujs'[p].pc = "done" => ujs'[p].ok
             /\ ujs[p].job_id \in DOMAIN jobs' =>
                  expiry'[ujs[p].job_id] - now' <= RemainingLifetime(ujs[p].job_id)
      ]_vars

\* the step is a write of an operation addressed to job b: the setex or srem
\* of an update_job_status(b, ...), or the sweep's srem of b
WriteFor(b) ==
    \/ \E p \in DOMAIN ujs :
         /\ ujs'[p] # ujs[p]
         /\ ujs[p].pc \in {"setex", "srem"}
         /\ ujs[p].job_id = b
    \/ web.pc = "srem_missing" /\ web.cur = b /\ web' # web

\* C34: a step that changes the record of a job, or its membership in the
\* active set, is a write of an operation addressed to that very job: an
\* update, a worker attempt or a reaper transition for another job changes
\* neither.
C34_OwnJobOnly ==
    [][ \A b \in DOMAIN jobs :
          ( \/ b \notin DOMAIN jobs'
            \/ jobs'[b] # jobs[b]
            \/ (b \in active_jobs) # (b \in active_jobs') )
          => WriteFor(b)
      ]_vars

\* one job was run by its worker and failed and left the active set, with the
\* reaper's update for it under way, while the other is as it was accepted
C34_Witness ==
    \E a, b \in DOMAIN jobs :
      /\ a # b
      /\ jobs[a]["status"] = JOB_STATUS.FAILED
      /\ jobs[a]["error"] = AttributeError
      /\ a \notin active_jobs
      /\ ujs[WEB].pc = "setex" /\ ujs[WEB].job_id = a
      /\ jobs[b] = UpdatedRecord(NewJobRecord(0), JOB_STATUS.QUEUED, [task_id |-> "task"])
      /\ b \in active_jobs

\* a stage of the attempt of job j runs in this step
StageRuns(j) ==
    /\ task[j].pc # task'[j].pc
    /\ task'[j].pc \in {"generated", "failing"}

C36_Original ==
    (caption.fn = "single_panel" /\ caption.pc = "returned")
    => /\ caption.result.py = "str"
       /\ caption.result = Placeholder \/ caption.result.len <= char_limit

\* C37 (as stated): a call of the generate_content that simulate_tweet calls
\* returns.
C37_Original ==
    (caption.fn = "meme_generator" /\ caption.pc # "returned")
    ~> (caption.fn = "meme_generator" /\ caption.pc = "returned")

\* the stored record of meme_id lacks a required field
LacksRequired(meme_id) ==
    /\ meme_id \in DOMAIN memes
    /\ {"imageUrl", "type", "memeId"} \ DOMAIN memes[meme_id] # {}

\* C38 (as stated): get_meme_data never returns a record that lacks one of
\* imageUrl, type, memeId, and for a meme id whose stored record lacks one
\* the meme page and the share page answer 404.
C38_Original ==
    /\ (meme_call.op = "get" /\ meme_call.found)
       => {"imageUrl", "type", "memeId"} \subseteq DOMAIN meme_call.data
    /\ (meme_call.op \in {"get_meme", "share_meme"} /\ LacksRequired(meme_call.meme_id))
       => meme_call.response = 404

====
